---- MODULE Spec2Model ----
(***************************************************************************)
(* The Tracer of chrome-trace-event: src/unnamed/part_000 (the TypeScript  *)
(* Tracer, variant "ts") and src/lib/trace-event.js (the older JavaScript  *)
(* Tracer, variant "js").  One tree of Tracers is modelled: the root, the  *)
(* Tracers derived from it, the Readable buffer of each (the sink), the    *)
(* args objects they share by reference, and the clock.                    *)
(***************************************************************************)
EXTENDS Integers, Sequences, FiniteSets, TLC

\* ------------------------------------------------------------------ bounds
\* Tracers of one tree, the root included
MaxTracers == 3
\* phase-method calls in a run of SpecFraming
MaxCalls == 3
\* flush() calls in a run of SpecFraming
MaxFlushes == 2
\* phase-method calls in a run of Spec
MaxFieldCalls == 1
\* FieldSet mutations in a run of Spec
MaxMutations == 1
\* constructor calls that throw in a run of SpecOptions
MaxRejected == 1
\* phase-method calls in a run of SpecOptions
MaxOptionCalls == 2

\* ------------------------------------------------------- JavaScript values
\* A value is a tagged record of one shape: t is the type, and s, n or l
\* carries a string, a number (or an object reference, or an object's
\* content) or a list of strings.
Undef == [t |-> "undef", s |-> "", n |-> 0, l |-> <<>>]
Str(s) == [t |-> "str", s |-> s, n |-> 0, l |-> <<>>]
Num(n) == [t |-> "num", s |-> "", n |-> n, l |-> <<>>]
List(l) == [t |-> "list", s |-> "", n |-> 0, l |-> l]
\* a reference to the args object at heap[r]
Ref(r) == [t |-> "ref", s |-> "", n |-> r, l |-> <<>>]
\* an object literal {k: c} in a caller's argument ({} when c = 0), not yet allocated
NewObj(c) == [t |-> "newobj", s |-> "", n |-> c, l |-> <<>>]
\* the JSON text of a mapping with content c
MapText(c) == [t |-> "map", s |-> "", n |-> c, l |-> <<>>]

Keys == {"ts", "pid", "tid", "ph", "name", "cat", "args", "x", "y"}
EmptyObj == [k \in Keys |-> Undef]

\* !v
Falsy(v) == \/ v.t = "undef"
            \/ v.t = "str" /\ v.s = ""
            \/ v.t = "num" /\ v.n = 0

\* Object.assign(target, src): every own key of src overwrites target's
ObjectAssign(target, src) ==
    [k \in Keys |-> IF src[k].t # "undef" THEN src[k] ELSE target[k]]

\* Array.prototype.join(",")
RECURSIVE Join(_)
Join(l) == IF l = <<>> THEN ""
           ELSE IF Len(l) = 1 THEN l[1]
           ELSE l[1] \o "," \o Join(Tail(l))

\* Evaluating the caller's object literal allocates its args object.
Alloc(obj, h) ==
    IF obj["args"].t = "newobj"
    THEN [obj |-> [obj EXCEPT !["args"] = Ref(Len(h) + 1)],
          heap |-> Append(h, obj["args"].n)]
    ELSE [obj |-> obj, heap |-> h]

\* JSON.stringify(ev): keys holding undefined are left out, an args reference
\* is written as the content the object has at this moment.
Stringify(ev, h) ==
    [k \in Keys |-> IF ev[k].t = "ref" THEN MapText(h[ev[k].n]) ELSE ev[k]]

\* ------------------------------------------------------------------ state
VARIABLES
    variant,    \* "ts": src/unnamed/part_000, "js": src/lib/trace-event.js
    parent,     \* parent[t]: the Tracer's parent, 0 for the root
    noStream,   \* this.noStream
    fields,     \* this.fields, the FieldSet
    events,     \* this.events, the buffer
    objectMode, \* this._objectMode (undefined, on a child, is FALSE)
    pushFn,     \* this._push: [fn, self], self = 0 while unbound
    firstPush,  \* this.firstPush (undefined is FALSE)
    sink,       \* what this.push() handed to the Tracer's Readable, in order
    heap,       \* the args objects: heap[r] is the content of object r
    now,        \* the last microsecond the clock returned
    calls,      \* history: the phase-method calls, in order; threw marks a
                \* call that ended in a TypeError and delivered nothing
    flushes,    \* history: flushes[t] counts the flush() calls on t
    mutated,    \* history: the Tracers whose FieldSet was mutated, in order
    ctorFields, \* history: opts.fields as each constructor received it
    ctorCalls   \* history: the new Tracer(opts) calls made with raw options,
                \* each with the error it ended in ("" when it returned)

vars == <<variant, parent, noStream, fields, events, objectMode, pushFn,
          firstPush, sink, heap, now, calls, flushes, mutated, ctorFields,
          ctorCalls>>

Tracers == 1..Len(parent)
Root == 1

\* ----------------------------------------------------------------- inputs
Obj1(k, v) == [EmptyObj EXCEPT ![k] = v]
Obj2(k1, v1, k2, v2) == [EmptyObj EXCEPT ![k1] = v1, ![k2] = v2]
Obj3(k1, v1, k2, v2, k3, v3) ==
    [EmptyObj EXCEPT ![k1] = v1, ![k2] = v2, ![k3] = v3]

\* opts.fields of a constructor or the argument of child(): given is FALSE
\* when it is absent
NoFields == [given |-> FALSE, obj |-> EmptyObj]
Given(o) == [given |-> TRUE, obj |-> o]

RootFieldInputs ==
    { NoFields,
      Given(Obj2("cat", List(<<"a">>), "x", Num(1))),
      Given(Obj2("cat", List(<<>>), "args", NewObj(1))) }

ChildFieldInputs ==
    { NoFields,
      Given(Obj2("cat", List(<<"b">>), "y", Num(2))),
      Given(Obj2("cat", Str(""), "args", Num(0))) }

\* the argument of a phase method
NoArg == [kind |-> "absent", s |-> "", obj |-> EmptyObj]
StrArg(s) == [kind |-> "string", s |-> s, obj |-> EmptyObj]
MapArg(o) == [kind |-> "mapping", s |-> "", obj |-> o]

CallInputs ==
    { NoArg,
      StrArg("n"),
      MapArg(Obj2("name", Str("m"), "cat", List(<<"c", "d">>))),
      MapArg(Obj2("cat", Str("s"), "name", Str("m"))),
      MapArg(Obj3("ph", Str("Z"), "ts", Num(0), "args", NewObj(2))) }

\* ------------------------------------------------------------ constructor
\* process.pid
Pid == 7

\* ConstructFields with the overlay reversed: on a key both have, the parent's
\* value wins
ConstructFieldsParentWins(hasParent, parentFields, fin, h) ==
    LET base == IF hasParent THEN ObjectAssign(EmptyObj, parentFields)
                ELSE EmptyObj
        a == Alloc(fin.obj, h)
        f1 == IF fin.given THEN ObjectAssign(a.obj, base) ELSE base
        f2 == IF Falsy(f1["cat"])
              THEN [f1 EXCEPT !["cat"] = Str("default")]
              ELSE IF f1["cat"].t = "list"
                   THEN [f1 EXCEPT !["cat"] = Str(Join(f1["cat"].l))]
                   ELSE f1
    IN  IF Falsy(f2["args"])
        THEN [fields |-> [f2 EXCEPT !["args"] = Ref(Len(a.heap) + 1)],
              heap |-> Append(a.heap, 0)]
        ELSE [fields |-> f2, heap |-> a.heap]

\* The constructor's FieldSet: the parent's fields copied one level deep, the
\* given fields laid over them, then the fallbacks for cat and args.
ConstructFields(hasParent, parentFields, fin, h) ==
    LET base == IF hasParent THEN ObjectAssign(EmptyObj, parentFields)
                ELSE EmptyObj
        a == Alloc(fin.obj, h)
        f1 == IF fin.given THEN ObjectAssign(base, a.obj) ELSE base
        f2 == IF Falsy(f1["cat"])
              THEN [f1 EXCEPT !["cat"] = Str("default")]
              ELSE IF f1["cat"].t = "list"
                   THEN [f1 EXCEPT !["cat"] = Str(Join(f1["cat"].l))]
                   ELSE f1
    IN  IF Falsy(f2["args"])
        THEN [fields |-> [f2 EXCEPT !["args"] = Ref(Len(a.heap) + 1)],
              heap |-> Append(a.heap, 0)]
        ELSE [fields |-> f2, heap |-> a.heap]

\* Bind binding again what is already bound: the last this wins
BindRebinds(f, self) == [f EXCEPT !.self = self]

\* Function.prototype.bind: a bound function keeps its first this
Bind(f, self) == IF f.self = 0 THEN [f EXCEPT !.self = self] ELSE f

\* this._push of a new Tracer
ConstructPush(p, om) ==
    IF p # 0 THEN Bind(pushFn[p], p)
    ELSE IF om THEN [fn |-> "push", self |-> 0]
    ELSE [fn |-> "_pushString", self |-> 0]

\* ---------------------------------------------------------------- the sink
Tok(c) == [c |-> c, ev |-> EmptyObj]
ObjTok(e) == [c |-> "obj", ev |-> e]
TextFrag(toks) == [kind |-> "text", toks |-> toks, ev |-> EmptyObj]
ObjFrag(e) == [kind |-> "object", toks |-> <<>>, ev |-> e]

\* the JSON tokens of the framing strings the Tracer writes
Lex(str) == IF str = "" THEN <<>>
            ELSE IF str = ",\n" THEN <<Tok(",")>>
            ELSE <<Tok(str)>>

\* Readable.push(chunk) on Tracer self; st is [sink, firstPush]
ReadablePush(self, frag, st) ==
    [st EXCEPT !.sink[self] = Append(@, frag)]

\* PushStringTs with the separator written after each event instead of before
\* every event but the first
PushStringTsTrailing(self, ev, h, st) ==
    LET opened == IF ~st.firstPush[self]
                  THEN [ReadablePush(self, TextFrag(Lex("[")), st)
                            EXCEPT !.firstPush[self] = TRUE]
                  ELSE st
    IN  ReadablePush(self,
                     TextFrag(<<ObjTok(Stringify(ev, h))>> \o Lex(",\n")),
                     opened)

\* _pushString(ev) of src/unnamed/part_000, this = self
PushStringTs(self, ev, h, st) ==
    LET opened == IF ~st.firstPush[self]
                  THEN [ReadablePush(self, TextFrag(Lex("[")), st)
                            EXCEPT !.firstPush[self] = TRUE]
                  ELSE st
        separator == IF ~st.firstPush[self] THEN "" ELSE ",\n"
    IN  ReadablePush(self,
                     TextFrag(Lex(separator) \o <<ObjTok(Stringify(ev, h))>>),
                     opened)

\* _pushString(ev) of src/lib/trace-event.js, this = self
PushStringJs(self, ev, h, st) ==
    LET opened == IF ~st.firstPush[self]
                  THEN [ReadablePush(self, TextFrag(Lex("[")), st)
                            EXCEPT !.firstPush[self] = TRUE]
                  ELSE st
    IN  ReadablePush(self,
                     TextFrag(<<ObjTok(Stringify(ev, h))>> \o Lex(",\n")),
                     opened)

\* this._push(ev) called on Tracer t, f = t's _push
CallPush(f, t, ev, h, st) ==
    LET self == IF f.self = 0 THEN t ELSE f.self
    IN  IF f.fn = "push" THEN ReadablePush(self, ObjFrag(ev), st)
        ELSE IF variant = "ts" THEN PushStringTs(self, ev, h, st)
        ELSE PushStringJs(self, ev, h, st)

\* for (const evt of this.events) this._push(evt)
RECURSIVE PushAll(_, _, _, _, _)
PushAll(f, t, evs, h, st) ==
    IF evs = <<>> THEN st
    ELSE PushAll(f, t, Tail(evs), h, CallPush(f, t, Head(evs), h, st))

\* FlushClose without the test of _objectMode: ']' is pushed in every mode
FlushCloseAlways(t, st) == ReadablePush(t, TextFrag(Lex("]")), st)

\* _flush(), this = t
FlushClose(t, st) ==
    IF ~objectMode[t] THEN ReadablePush(t, TextFrag(Lex("]")), st) ELSE st

\* --------------------------------------------------------------- the clock
\* process.hrtime() in microseconds: the same microsecond again, or a later one
ClockReadings == {now, now + 1}

\* evCommon()
evCommon(ts) ==
    [EmptyObj EXCEPT !["ts"] = Num(ts), !["pid"] = Num(Pid), !["tid"] = Num(Pid)]

\* ------------------------------------------------------ event construction
\* the phase code each method closes over; "" where the variant has no such method
PhaseCode(v, method) ==
    IF v = "ts"
    THEN CASE method = "begin" -> "B"
           [] method = "end" -> "E"
           [] method = "completeEvent" -> "X"
           [] method = "instantEvent" -> "I"
    ELSE CASE method = "begin" -> "b"
           [] method = "end" -> "e"
           [] method = "completeEvent" -> ""
           [] method = "instantEvent" -> "n"

\* if (fields): undefined and the empty string are falsy
ArgFalsy(arg) == arg.kind = "absent" \/ (arg.kind = "string" /\ arg.s = "")

\* MkEventTs with ph and the evCommon() keys assigned after the copy of the
\* call-site keys: a ph, ts, pid or tid of the mapping is overwritten
MkEventTsFixedLast(ph, arg, ts) ==
    LET ev == [evCommon(ts) EXCEPT !["ph"] = Str(ph)]
    IN  IF ArgFalsy(arg) THEN [threw |-> FALSE, ev |-> ev]
        ELSE IF arg.kind = "string"
        THEN [threw |-> FALSE, ev |-> [ev EXCEPT !["name"] = Str(arg.s)]]
        ELSE IF arg.obj["cat"].t \notin {"undef", "list"}
        THEN [threw |-> TRUE, ev |-> ev]
        ELSE [threw |-> FALSE,
              ev |-> [k \in Keys |->
                        IF k \in {"ph", "ts", "pid", "tid"} THEN ev[k]
                        ELSE IF arg.obj[k].t = "undef" THEN ev[k]
                        ELSE IF k = "cat" THEN Str(Join(arg.obj["cat"].l))
                        ELSE arg.obj[k]]]

\* the event built by mkEventFunc(ph)(fields) of src/unnamed/part_000;
\* threw: fields.cat has no join()
MkEventTs(ph, arg, ts) ==
    LET ev == [evCommon(ts) EXCEPT !["ph"] = Str(ph)]
    IN  IF ArgFalsy(arg) THEN [threw |-> FALSE, ev |-> ev]
        ELSE IF arg.kind = "string"
        THEN [threw |-> FALSE, ev |-> [ev EXCEPT !["name"] = Str(arg.s)]]
        ELSE IF arg.obj["cat"].t \notin {"undef", "list"}
        THEN [threw |-> TRUE, ev |-> ev]
        ELSE [threw |-> FALSE,
              ev |-> [k \in Keys |->
                        IF arg.obj[k].t = "undef" THEN ev[k]
                        ELSE IF k = "cat" THEN Str(Join(arg.obj["cat"].l))
                        ELSE arg.obj[k]]]

\* the event built by mkEventFunc(ph)(fields) of src/lib/trace-event.js on a
\* Tracer whose FieldSet is fs
MkEventJs(fs, ph, arg, ts) ==
    LET ev == ObjectAssign([evCommon(ts) EXCEPT !["ph"] = Str(ph)], fs)
    IN  IF ArgFalsy(arg) THEN [threw |-> FALSE, ev |-> ev]
        ELSE IF arg.kind = "string"
        THEN [threw |-> FALSE, ev |-> [ev EXCEPT !["name"] = Str(arg.s)]]
        ELSE LET copied == ObjectAssign(ev, arg.obj)
             IN  IF Falsy(arg.obj["cat"])
                 THEN [threw |-> FALSE, ev |-> copied]
                 ELSE IF arg.obj["cat"].t # "list"
                 THEN [threw |-> TRUE, ev |-> copied]
                 ELSE [threw |-> FALSE,
                       ev |-> [copied EXCEPT
                                 !["cat"] = Str(Join(arg.obj["cat"].l))]]

\* mkEventFunc(ph)(fields) on Tracer t at clock reading ts: build the event,
\* then push or buffer it
MkEventFunc(t, method, arg, ts) ==
    /\ PhaseCode(variant, method) # ""
    /\ LET a == Alloc(arg.obj, heap)
           given == [arg EXCEPT !.obj = a.obj]
           r == IF variant = "ts"
                THEN MkEventTs(PhaseCode(variant, method), given, ts)
                ELSE MkEventJs(fields[t], PhaseCode(variant, method), given, ts)
           buffered == variant = "ts" /\ noStream[t]
           st == IF r.threw \/ buffered
                 THEN [sink |-> sink, firstPush |-> firstPush]
                 ELSE CallPush(pushFn[t], t, r.ev, a.heap,
                               [sink |-> sink, firstPush |-> firstPush])
       IN  /\ now' = ts
           /\ heap' = a.heap
           /\ sink' = st.sink
           /\ firstPush' = st.firstPush
           /\ events' = IF ~r.threw /\ buffered
                        THEN [events EXCEPT ![t] = Append(@, r.ev)]
                        ELSE events
           /\ calls' = Append(calls, [t |-> t, method |-> method, arg |-> given,
                                      ev |-> r.ev, threw |-> r.threw])
    /\ UNCHANGED <<variant, parent, noStream, fields, objectMode, pushFn,
                   flushes, mutated, ctorFields, ctorCalls>>

Begin(t, arg, ts) == MkEventFunc(t, "begin", arg, ts)
End(t, arg, ts) == MkEventFunc(t, "end", arg, ts)
CompleteEvent(t, arg, ts) == MkEventFunc(t, "completeEvent", arg, ts)
InstantEvent(t, arg, ts) == MkEventFunc(t, "instantEvent", arg, ts)

\* ------------------------------------------------------------------ flush
\* Flush without the test of noStream: the buffer is pushed and the array
\* closed in every mode
FlushUnguarded(t) ==
    /\ variant = "ts"
    /\ LET st0 == [sink |-> sink, firstPush |-> firstPush]
           st == FlushClose(t, PushAll(pushFn[t], t, events[t], heap, st0))
       IN  /\ sink' = st.sink
           /\ firstPush' = st.firstPush
    /\ flushes' = [flushes EXCEPT ![t] = @ + 1]
    /\ UNCHANGED <<variant, parent, noStream, fields, events, objectMode,
                   pushFn, heap, now, calls, mutated, ctorFields, ctorCalls>>

\* flush() on Tracer t (src/unnamed/part_000 only)
Flush(t) ==
    /\ variant = "ts"
    /\ LET st0 == [sink |-> sink, firstPush |-> firstPush]
           st == IF noStream[t] = TRUE
                 THEN FlushClose(t, PushAll(pushFn[t], t, events[t], heap, st0))
                 ELSE st0
       IN  /\ sink' = st.sink
           /\ firstPush' = st.firstPush
    /\ flushes' = [flushes EXCEPT ![t] = @ + 1]
    /\ UNCHANGED <<variant, parent, noStream, fields, events, objectMode,
                   pushFn, heap, now, calls, mutated, ctorFields, ctorCalls>>

\* ------------------------------------------------------------ new Tracers
\* new Tracer({parent: p, fields: fin, objectMode: om, noStream: ns})
Construct(p, fin, om, ns) ==
    /\ LET c == ConstructFields(TRUE, fields[p], fin, heap)
       IN  /\ fields' = Append(fields, c.fields)
           /\ heap' = c.heap
           /\ ctorFields' = Append(ctorFields,
                                   [fin EXCEPT !.obj = Alloc(fin.obj, heap).obj])
    /\ parent' = Append(parent, p)
    /\ noStream' = Append(noStream, IF variant = "ts" THEN ns ELSE FALSE)
    /\ events' = Append(events, <<>>)
    /\ objectMode' = Append(objectMode, FALSE)
    /\ pushFn' = Append(pushFn, ConstructPush(p, om))
    /\ firstPush' = Append(firstPush, FALSE)
    /\ sink' = Append(sink, <<>>)
    /\ flushes' = Append(flushes, 0)
    /\ UNCHANGED <<variant, now, calls, mutated>>

\* child(fields) on Tracer p
Child(p, fin) == Construct(p, fin, FALSE, FALSE) /\ UNCHANGED ctorCalls

\* ------------------------------------------- new Tracer(opts), raw options
\* A raw option value is known by its kind: "absent" (undefined), "null",
\* "object", "string", "number", "true" or "false".
TypeOf(k) ==
    CASE k = "absent" -> "undefined"
      [] k \in {"null", "object"} -> "object"
      [] k = "string" -> "string"
      [] k = "number" -> "number"
      [] k \in {"true", "false"} -> "boolean"

\* v != null
NotNull(k) == k \notin {"absent", "null"}

\* raw options: opts itself, and its parent (a Tracer when parentKind is
\* "object"), fields, objectMode and noStream entries
RawOpts(opts, parentKind, p, fieldsKind, om, ns) ==
    [opts |-> opts, parentKind |-> parentKind, parent |-> p,
     fieldsKind |-> fieldsKind, objectMode |-> om, noStream |-> ns]

\* Validate with the check of opts.objectMode left out
ValidateNoObjectMode(v, o) ==
    LET opts == IF o.opts = "absent" THEN "object" ELSE o.opts
    IN  IF v = "ts"
        THEN IF TypeOf(opts) # "object"
             THEN "Error: Invalid options passed (must be an object)"
             ELSE IF opts = "null" THEN "TypeError"
             ELSE IF NotNull(o.parentKind) /\ TypeOf(o.parentKind) # "object"
             THEN "Error: Invalid option (parent) passed (must be an object)"
             ELSE IF NotNull(o.fieldsKind) /\ TypeOf(o.fieldsKind) # "object"
             THEN "Error: Invalid option (fields) passed (must be an object)"
             ELSE ""
        ELSE IF TypeOf(opts) # "object" \/ opts = "null"
             THEN "AssertionError: opts (object) is required"
             ELSE IF NotNull(o.parentKind) /\ TypeOf(o.parentKind) # "object"
             THEN "AssertionError: opts.parent (object) is required"
             ELSE IF NotNull(o.fieldsKind) /\ TypeOf(o.fieldsKind) # "object"
             THEN "AssertionError: opts.fields (object) is required"
             ELSE ""

\* The checks at the head of the constructor of variant v: the error they end
\* in, "" when they all pass. opts defaults to {} when absent.
Validate(v, o) ==
    LET opts == IF o.opts = "absent" THEN "object" ELSE o.opts
    IN  IF v = "ts"
        THEN IF TypeOf(opts) # "object"
             THEN "Error: Invalid options passed (must be an object)"
             ELSE IF opts = "null" THEN "TypeError"
             ELSE IF NotNull(o.parentKind) /\ TypeOf(o.parentKind) # "object"
             THEN "Error: Invalid option (parent) passed (must be an object)"
             ELSE IF NotNull(o.fieldsKind) /\ TypeOf(o.fieldsKind) # "object"
             THEN "Error: Invalid option (fields) passed (must be an object)"
             ELSE IF NotNull(o.objectMode) /\ TypeOf(o.objectMode) # "boolean"
             THEN "Error: Invalid option (objectsMode) passed (must be a boolean)"
             ELSE ""
        ELSE IF TypeOf(opts) # "object" \/ opts = "null"
             THEN "AssertionError: opts (object) is required"
             ELSE IF NotNull(o.parentKind) /\ TypeOf(o.parentKind) # "object"
             THEN "AssertionError: opts.parent (object) is required"
             ELSE IF NotNull(o.fieldsKind) /\ TypeOf(o.fieldsKind) # "object"
             THEN "AssertionError: opts.fields (object) is required"
             ELSE IF NotNull(o.objectMode) /\ TypeOf(o.objectMode) # "boolean"
             THEN "AssertionError: opts.objectMode (bool) is required"
             ELSE ""

\* new Tracer(o) with raw options o: the checks throw before anything is
\* assigned, or the Tracer is constructed under o.parent
NewTracer(o) ==
    LET err == Validate(variant, o)
    IN  /\ ctorCalls' = Append(ctorCalls, [opts |-> o, error |-> err])
        /\ IF err # ""
           THEN UNCHANGED <<variant, parent, noStream, fields, events,
                            objectMode, pushFn, firstPush, sink, heap, now,
                            calls, flushes, mutated, ctorFields>>
           ELSE /\ o.parentKind = "object"
                /\ o.fieldsKind = "absent"
                /\ Construct(o.parent, NoFields, o.objectMode = "true",
                             o.noStream = "true")

\* ------------------------------------------------- mutating a FieldSet
\* tracer.fields[k] = v, from outside
SetField(t, k, v) ==
    /\ fields[t][k] # v
    /\ fields' = [fields EXCEPT ![t][k] = v]
    /\ mutated' = Append(mutated, t)
    /\ UNCHANGED <<variant, parent, noStream, events, objectMode, pushFn,
                   firstPush, sink, heap, now, calls, flushes, ctorFields,
                   ctorCalls>>

\* tracer.fields.args.k = c: a change inside the args mapping
SetArgsEntry(t, c) ==
    /\ fields[t]["args"].t = "ref"
    /\ heap[fields[t]["args"].n] # c
    /\ heap' = [heap EXCEPT ![fields[t]["args"].n] = c]
    /\ mutated' = Append(mutated, t)
    /\ UNCHANGED <<variant, parent, noStream, fields, events, objectMode,
                   pushFn, firstPush, sink, now, calls, flushes, ctorFields,
                   ctorCalls>>

\* ------------------------------------------------------ the specifications
\* new Tracer({fields: fin, objectMode: om, noStream: ns}) of variant v: the root
NewRoot(v, fin, om, ns) ==
    /\ variant = v
    /\ parent = <<0>>
    /\ noStream = <<IF v = "ts" THEN ns ELSE FALSE>>
    /\ LET c == ConstructFields(FALSE, EmptyObj, fin, <<>>)
       IN  /\ fields = <<c.fields>>
           /\ heap = c.heap
           /\ ctorFields = <<[fin EXCEPT !.obj = Alloc(fin.obj, <<>>).obj]>>
    /\ events = << <<>> >>
    /\ objectMode = <<om>>
    /\ pushFn = <<IF om THEN [fn |-> "push", self |-> 0]
                  ELSE [fn |-> "_pushString", self |-> 0]>>
    /\ firstPush = <<FALSE>>
    /\ sink = << <<>> >>
    /\ now = 1
    /\ calls = <<>>
    /\ flushes = <<0>>
    /\ mutated = <<>>
    /\ ctorCalls = <<>>

RECURSIVE SumTo(_, _)
SumTo(f, n) == IF n = 0 THEN 0 ELSE f[n] + SumTo(f, n - 1)

\* Spec: a tree of Tracers with any fields, every kind of call-site argument,
\* and FieldSets mutated from outside.
Init ==
    \E v \in {"ts", "js"}, fin \in RootFieldInputs, ns \in BOOLEAN :
        /\ v = "js" => ~ns
        /\ NewRoot(v, fin, FALSE, ns)

Next ==
    \/ \E t \in Tracers, arg \in CallInputs, ts \in ClockReadings :
          Len(calls) < MaxFieldCalls /\ Begin(t, arg, ts)
    \/ \E t \in Tracers, arg \in CallInputs, ts \in ClockReadings :
          Len(calls) < MaxFieldCalls /\ End(t, arg, ts)
    \/ \E t \in Tracers, arg \in CallInputs, ts \in ClockReadings :
          Len(calls) < MaxFieldCalls /\ CompleteEvent(t, arg, ts)
    \/ \E t \in Tracers, arg \in CallInputs, ts \in ClockReadings :
          Len(calls) < MaxFieldCalls /\ InstantEvent(t, arg, ts)
    \/ \E p \in Tracers, fin \in ChildFieldInputs :
          Len(parent) < MaxTracers /\ Child(p, fin)
    \/ \E t \in Tracers :
          Len(mutated) < MaxMutations /\ SetField(t, "x", Num(9))
    \/ \E t \in Tracers, c \in {0, 3} :
          Len(mutated) < MaxMutations /\ SetArgsEntry(t, c)

Spec == Init /\ [][Next]_vars

\* SpecFraming: the framing of the sink, for every output mode of the root,
\* with calls from the whole tree and flush() on any Tracer.
FramingInputs == {StrArg("n")}

InitFraming ==
    \E v \in {"ts", "js"}, om \in BOOLEAN, ns \in BOOLEAN :
        /\ v = "js" => ~ns
        /\ NewRoot(v, NoFields, om, ns)

NextFraming ==
    \/ \E t \in Tracers, arg \in FramingInputs :
          Len(calls) < MaxCalls /\ Begin(t, arg, now + 1)
    \/ \E t \in Tracers, arg \in FramingInputs :
          Len(calls) < MaxCalls /\ End(t, arg, now + 1)
    \/ \E t \in Tracers, arg \in FramingInputs :
          Len(calls) < MaxCalls /\ CompleteEvent(t, arg, now + 1)
    \/ \E t \in Tracers, arg \in FramingInputs :
          Len(calls) < MaxCalls /\ InstantEvent(t, arg, now + 1)
    \/ \E t \in Tracers :
          SumTo(flushes, Len(flushes)) < MaxFlushes /\ Flush(t)
    \/ \E p \in Tracers :
          Len(parent) < MaxTracers /\ Child(p, NoFields)

SpecFraming == InitFraming /\ [][NextFraming]_vars

\* SpecOptions: Tracers constructed with raw options, valid and invalid, under
\* a root of every output mode, with calls and flush() on any of them.
OptionInputs ==
    { RawOpts("object", "object", p, "absent", om, ns) :
        p \in Tracers,
        om \in {"absent", "true"}, ns \in {"absent", "true"} }
    \cup { RawOpts("string", "absent", 0, "absent", "absent", "absent"),
           RawOpts("null", "absent", 0, "absent", "absent", "absent"),
           RawOpts("object", "number", 0, "absent", "absent", "absent"),
           RawOpts("object", "absent", 0, "string", "absent", "absent"),
           RawOpts("object", "object", Root, "absent", "string", "absent") }

Rejected == {i \in 1..Len(ctorCalls) : ctorCalls[i].error # ""}

InitOptions ==
    \E v \in {"ts", "js"}, om \in BOOLEAN, ns \in BOOLEAN :
        /\ v = "js" => ~ns
        /\ NewRoot(v, NoFields, om, ns)

NextOptions ==
    \/ \E o \in OptionInputs :
          /\ Len(parent) < MaxTracers
          /\ Cardinality(Rejected) < MaxRejected
          /\ NewTracer(o)
    \/ \E t \in Tracers :
          Len(calls) < MaxOptionCalls /\ Begin(t, StrArg("n"), now + 1)
    \/ \E t \in Tracers :
          SumTo(flushes, Len(flushes)) < MaxFlushes /\ Flush(t)

SpecOptions == InitOptions /\ [][NextOptions]_vars

\* ------------------------------------------------- reading the sink back
\* the concatenation of the text fragments pushed to a Readable, as tokens
RECURSIVE Flatten(_)
Flatten(frags) ==
    IF frags = <<>> THEN <<>> ELSE Head(frags).toks \o Flatten(Tail(frags))

\* JSON.parse of a token sequence as an array of objects: ok, and the elements
ParseArray(toks) ==
    LET n == Len(toks)
        m == n - 2
        ok == /\ n >= 2
              /\ toks[1].c = "["
              /\ toks[n].c = "]"
              /\ \/ m = 0
                 \/ /\ m % 2 = 1
                    /\ \A i \in 1..m :
                         toks[i + 1].c = IF i % 2 = 1 THEN "obj" ELSE ","
    IN  [ok |-> ok,
         elems |-> IF ok THEN [i \in 1..((m + 1) \div 2) |-> toks[2 * i].ev]
                   ELSE <<>>]

\* the events the calls so far constructed, in construction order, as JSON
Constructed ==
    [i \in 1..Len(calls) |-> Stringify(calls[i].ev, heap)]

TsRoot == variant = "ts"
StreamedText == TsRoot /\ ~noStream[Root] /\ ~objectMode[Root]
BufferedText == TsRoot /\ noStream[Root] /\ ~objectMode[Root]
FlushesRoot == flushes'[Root] = flushes[Root] + 1

\* ------------------------------------------------------------- the claims
\* C1: in streamed text mode, once the owner's flush() ended a sequence of
\* phase-method calls (here: at least one), the fragments pushed to the root's
\* sink concatenate to a valid JSON array whose elements are the constructed
\* events in order.
C1_StreamedFlushYieldsJsonArray ==
    [][(StreamedText /\ FlushesRoot /\ Len(calls) >= 1)
         => LET p == ParseArray(Flatten(sink'[Root]))
            IN  p.ok /\ p.elems = Constructed]_vars

\* C2: while the root is in buffered mode, a phase-method call on any Tracer
\* of the tree leaves every sink unchanged and appends its event to the
\* root's buffer.
C2_BufferedTreeNeverWritesSink ==
    [][(TsRoot /\ noStream[Root] /\ Len(calls') = Len(calls) + 1
          /\ ~calls'[Len(calls')].threw)
         => /\ sink' = sink
            /\ events'[Root] = Append(events[Root], calls'[Len(calls')].ev)]_vars

\* C3: in buffered text mode, the first flush() after n >= 1 phase-method
\* calls on the root leaves in the sink a valid JSON array, closed by ']',
\* holding each of the n constructed events once, in call order.
C3_BufferedFlushYieldsJsonArray ==
    [][(BufferedText /\ FlushesRoot /\ flushes[Root] = 0 /\ Len(calls) >= 1
          /\ \A i \in 1..Len(calls) : calls[i].t = Root)
         => LET toks == Flatten(sink'[Root])
                p == ParseArray(toks)
            IN  /\ p.ok
                /\ p.elems = Constructed
                /\ toks[Len(toks)] = Tok("]")]_vars

\* a buffered text root, flushed once after MaxCalls calls on it
C3_Witness ==
    /\ BufferedText
    /\ flushes[Root] = 1
    /\ Len(calls) = MaxCalls
    /\ \A i \in 1..Len(calls) : calls[i].t = Root
    /\ Len(Flatten(sink[Root])) = 2 * MaxCalls + 1

\* C4: flush() on a buffered text root on which no phase method was called
\* leaves '[]' in the sink.
C4_EmptyFlushYieldsEmptyArray ==
    (BufferedText /\ calls = <<>> /\ flushes[Root] = 1)
        => Flatten(sink[Root]) = <<Tok("["), Tok("]")>>

\* C5: on a buffered root, every flush() after the first leaves the sink
\* unchanged.
C5_FlushIdempotent ==
    [][(TsRoot /\ noStream[Root] /\ FlushesRoot /\ flushes[Root] >= 1)
         => sink' = sink]_vars

MandatoryKeys == {"ts", "pid", "tid", "ph", "cat", "args"}

\* C6: every event a phase method of a Tracer of src/unnamed/part_000 hands
\* to the sink or the buffer has ts, pid, tid, ph, cat and args, none null.
C6_EventsCarryMandatoryKeys ==
    \A i \in 1..Len(calls) :
        (TsRoot /\ ~calls[i].threw)
            => \A k \in MandatoryKeys : calls[i].ev[k].t # "undef"

\* C7: with root fields {cat: ["a"], x: 1} and child fields {cat: ["b"], y: 2},
\* an event of a phase method of the child (whose call-site argument names no
\* field) carries cat "b", x 1 and y 2.
C7_ChildEventsCarryInheritedFields ==
    \A i \in 1..Len(calls) :
        LET c == calls[i]
        IN  (/\ TsRoot
             /\ ~c.threw
             /\ c.arg.kind # "mapping"
             /\ mutated = <<>>
             /\ parent[c.t] = Root
             /\ ctorFields[Root] = Given(Obj2("cat", List(<<"a">>), "x", Num(1)))
             /\ ctorFields[c.t] = Given(Obj2("cat", List(<<"b">>), "y", Num(2))))
            => /\ c.ev["cat"] = Str("b")
               /\ c.ev["x"] = Num(1)
               /\ c.ev["y"] = Num(2)

\* the step constructs a Tracer with a parent
Derives == Len(parent') = Len(parent) + 1
\* key k of the parent's FieldSet overlaid with the fields the new Tracer was given
Overlaid(k) ==
    LET t == Len(parent')
        g == ctorFields'[t]
    IN  IF g.given /\ g.obj[k].t # "undef" THEN g.obj[k]
        ELSE fields[parent'[t]][k]
Joined(v) == IF v.t = "list" THEN Str(Join(v.l)) ELSE v

\* C8 as stated: the FieldSet of a Tracer derived with child(fields), at any
\* depth and in both variants, is the parent's FieldSet overlaid with fields,
\* with a cat given as a list stored joined with ','.
C8_ChildFieldSetIsOverlay ==
    [][Derives
         => \A k \in Keys :
              fields'[Len(parent')][k]
                  = IF k = "cat" THEN Joined(Overlaid(k)) ELSE Overlaid(k)]_vars

\* C8 as amended: the FieldSet of a Tracer derived with child(fields), at any
\* depth and in both variants, is the parent's FieldSet overlaid with fields,
\* except that a cat that is falsy after the overlay is stored as "default"
\* and an args that is falsy after the overlay as a new empty mapping; a cat
\* given as a list is stored joined with ','.
C8_ChildFieldSetIsOverlayWithFallbacks ==
    [][Derives
         => \A k \in Keys :
              LET got == fields'[Len(parent')][k]
              IN  IF k = "cat" /\ Falsy(Overlaid(k)) THEN got = Str("default")
                  ELSE IF k = "cat" THEN got = Joined(Overlaid(k))
                  ELSE IF k = "args" /\ Falsy(Overlaid(k))
                  THEN /\ got.t = "ref"
                       /\ got.n > Len(heap)
                       /\ heap'[got.n] = 0
                  ELSE got = Overlaid(k)]_vars

\* a grandchild of the root, derived with {cat: ["b"], y: 2} from a child that
\* inherited x: 1 from the root
C8_Witness ==
    \E t \in Tracers :
        /\ parent[t] \notin {0, Root}
        /\ ctorFields[t] = Given(Obj2("cat", List(<<"b">>), "y", Num(2)))
        /\ ctorFields[Root] = Given(Obj2("cat", List(<<"a">>), "x", Num(1)))
        /\ fields[parent[t]]["cat"] # Str("b")
        /\ fields[t]["cat"] = Str("b")
        /\ fields[t]["x"] = Num(1)
        /\ fields[t]["y"] = Num(2)

\* C9: a mutation of a Tracer's FieldSet (a field set, or an entry changed
\* inside its args mapping) leaves the content of the FieldSet of each of its
\* children unchanged.
C9_ParentMutationLeavesChild ==
    [][Len(mutated') = Len(mutated) + 1
         => \A t \in Tracers :
              parent[t] = mutated'[Len(mutated')]
                  => Stringify(fields'[t], heap') = Stringify(fields[t], heap)]_vars

\* C10: in every event cat is a string: the call-site cat joined with ',' when
\* the call gives one as a list, the cat of the Tracer's FieldSet otherwise.
C10_EventCatIsString ==
    \A i \in 1..Len(calls) :
        LET c == calls[i]
        IN  (TsRoot /\ ~c.threw /\ mutated = <<>>)
                => /\ c.ev["cat"].t = "str"
                   /\ c.ev["cat"]
                        = IF c.arg.kind = "mapping" /\ c.arg.obj["cat"].t = "list"
                          THEN Str(Join(c.arg.obj["cat"].l))
                          ELSE fields[c.t]["cat"]

\* C11: a phase method called with a mapping whose cat is a string returns
\* without throwing and delivers one event whose cat is that string.
C11_StringCatPassesThrough ==
    [][(Len(calls') = Len(calls) + 1
          /\ calls'[Len(calls')].arg.kind = "mapping"
          /\ calls'[Len(calls')].arg.obj["cat"].t = "str")
         => LET c == calls'[Len(calls')]
                delivered == IF variant = "ts" /\ noStream[c.t]
                             THEN events'[c.t] = Append(events[c.t], c.ev)
                             ELSE Len(sink'[Root]) > Len(sink[Root])
            IN  /\ ~c.threw
                /\ delivered
                /\ c.ev["cat"] = c.arg.obj["cat"]]_vars

\* C12: a phase method called with a string delivers one event whose name is
\* that string and whose cat, args and custom keys are those of the Tracer's
\* FieldSet.
C12_StringArgEventCarriesDefaults ==
    [][(TsRoot /\ Len(calls') = Len(calls) + 1
          /\ calls'[Len(calls')].arg.kind = "string"
          /\ ~ArgFalsy(calls'[Len(calls')].arg))
         => LET c == calls'[Len(calls')]
            IN  /\ ~c.threw
                /\ c.ev["name"] = Str(c.arg.s)
                /\ \A k \in {"cat", "args", "x", "y"} :
                     c.ev[k] = fields[c.t][k]]_vars

\* options the constructor is to refuse: opts that is not a mapping, a parent
\* or fields that is given and is not an object, an objectMode that is given
\* and is not a boolean
InvalidOptions(o) ==
    \/ o.opts \in {"null", "string", "number", "true", "false"}
    \/ o.parentKind \in {"string", "number", "true", "false"}
    \/ o.fieldsKind \in {"string", "number", "true", "false"}
    \/ o.objectMode \in {"object", "string", "number"}

\* C13: new Tracer(opts) with invalid options throws, and the call leaves
\* every Tracer of the tree as it was: no FieldSet, buffer, framing state or
\* sink is created or changed, the parent's included.
C13_InvalidOptionsRejectedWithoutState ==
    [][(Len(ctorCalls') = Len(ctorCalls) + 1
          /\ InvalidOptions(ctorCalls'[Len(ctorCalls')].opts))
         => /\ ctorCalls'[Len(ctorCalls')].error # ""
            /\ UNCHANGED <<parent, noStream, fields, events, objectMode,
                           pushFn, firstPush, sink, heap, flushes>>]_vars

\* each kind of invalid option was refused in some run; here a non-boolean
\* objectMode given with a parent whose tree already holds an event
C13_Witness ==
    \E i \in 1..Len(ctorCalls) :
        /\ ctorCalls[i].opts.objectMode = "string"
        /\ ctorCalls[i].opts.parent = Root
        /\ ctorCalls[i].error # ""
        /\ calls # <<>>
        /\ Len(parent) >= 2

\* C14: a Tracer constructed with a parent behaves the same whether or not
\* objectMode or noStream came with it: a phase-method call on it delivers
\* the event through the root and buffers nothing, and flush() on it pushes
\* nothing to any sink.
C14_OutputOptionsIgnoredBelowRoot ==
    [][\A t \in Tracers \ {Root} :
         /\ (Len(calls') = Len(calls) + 1 /\ calls'[Len(calls')].t = t)
              => /\ events' = events
                 /\ sink'[Root] # sink[Root]
                 /\ \A u \in Tracers \ {Root} : sink'[u] = sink[u]
         /\ flushes'[t] = flushes[t] + 1 => sink' = sink]_vars

\* the events of the calls so far, each as one object fragment, in call order
DeliveredAsObjects(cs) == [i \in 1..Len(cs) |-> ObjFrag(cs[i].ev)]

C16_FlushOfStreamedTracerIsNoOp ==
    [][\A t \in Tracers :
         (flushes'[t] = flushes[t] + 1 /\ ~noStream[t])
             => /\ sink' = sink
                /\ firstPush' = firstPush
                /\ events' = events
                /\ fields' = fields]_vars

\* flush() was called on a streamed Tracer of a tree whose sink holds events
C16_Witness ==
    \E t \in Tracers :
        /\ TsRoot
        /\ ~noStream[t]
        /\ flushes[t] >= 1
        /\ Len(calls) >= 2
        /\ sink[Root] # <<>>

\* the events among the tokens of a text sink, in the order they were written
EventsIn(toks) ==
    LET objs == SelectSeq(toks, LAMBDA x : x.c = "obj")
    IN  [i \in 1..Len(objs) |-> objs[i].ev]

\* C17: under a streamed text root of either variant, once a phase method was
\* called on any Tracer of the tree, the root's sink starts with '[', holds
\* '[' exactly once and holds the events of all calls of the tree in call
\* order; no other Tracer has written to a sink or opened an array of its own.
C17_TreeSharesRootFraming ==
    (~objectMode[Root] /\ ~noStream[Root] /\ calls # <<>>)
        => LET toks == Flatten(sink[Root])
           IN  /\ toks # <<>>
               /\ toks[1] = Tok("[")
               /\ Cardinality({i \in 1..Len(toks) : toks[i].c = "["}) = 1
               /\ EventsIn(toks) = Constructed
               /\ \A t \in Tracers \ {Root} :
                    sink[t] = <<>> /\ ~firstPush[t]

\* a streamed text tree in which the root, its child and its grandchild have
\* each delivered an event
C17_Witness ==
    /\ ~objectMode[Root]
    /\ ~noStream[Root]
    /\ \E t \in Tracers :
         /\ parent[t] \notin {0, Root}
         /\ {calls[i].t : i \in 1..Len(calls)} = {Root, parent[t], t}
         /\ calls[1].t = t

\* '[' followed by k >= 1 events with one separator between consecutive
\* events, optionally followed by ']'
WellFramed(toks) ==
    LET n == IF toks # <<>> /\ toks[Len(toks)].c = "]"
             THEN Len(toks) - 1 ELSE Len(toks)
    IN  /\ n >= 2
        /\ n % 2 = 0
        /\ toks[1].c = "["
        /\ \A i \in 2..n : toks[i].c = IF i % 2 = 0 THEN "obj" ELSE ","

\* C18: in every reachable state the output of a text-mode root of
\* src/unnamed/part_000 is empty or well framed.
C18_TextSinkWellFramed ==
    (TsRoot /\ ~objectMode[Root])
        => LET toks == Flatten(sink[Root])
           IN  toks = <<>> \/ WellFramed(toks)

\* C19: in every reachable state the FieldSet of every Tracer holds cat as a
\* non-empty string and args as a mapping.
C19_FieldSetHasCatAndArgs ==
    \A t \in Tracers :
        /\ fields[t]["cat"].t = "str"
        /\ fields[t]["cat"].s # ""
        /\ fields[t]["args"].t = "ref"

\* the phase code the TypeScript Tracer documents for each method
FixedCode(method) ==
    CASE method = "begin" -> Str("B")
      [] method = "end" -> Str("E")
      [] method = "completeEvent" -> Str("X")
      [] method = "instantEvent" -> Str("I")

\* C20: the ph of every event of the TypeScript Tracer is the fixed code of
\* the method that produced it, whatever the call-site argument, and its ts,
\* pid and tid are the clock reading of the call and the process id.
C20_PhaseAndClockFixed ==
    \A i \in 1..Len(calls) :
        LET c == calls[i]
        IN  (TsRoot /\ ~c.threw)
                => /\ c.ev["ph"] = FixedCode(c.method)
                   /\ c.ev["pid"] = Num(Pid)
                   /\ c.ev["tid"] = Num(Pid)
                   /\ c.ev["ts"].t = "num"
                   /\ i = Len(calls) => c.ev["ts"] = Num(now)

\* C20 as amended: ph is the fixed code of the method, ts the clock reading of
\* the call and pid and tid the process id, each unless the call-site mapping
\* carries that key, whose value then replaces it.
C20_PhaseAndClockUnlessGiven ==
    \A i \in 1..Len(calls) :
        LET c == calls[i]
            given(k) == c.arg.kind = "mapping" /\ c.arg.obj[k].t # "undef"
        IN  (TsRoot /\ ~c.threw)
                => /\ c.ev["ph"] = IF given("ph") THEN c.arg.obj["ph"]
                                   ELSE FixedCode(c.method)
                   /\ c.ev["pid"] = IF given("pid") THEN c.arg.obj["pid"]
                                    ELSE Num(Pid)
                   /\ c.ev["tid"] = IF given("tid") THEN c.arg.obj["tid"]
                                    ELSE Num(Pid)
                   /\ IF given("ts") THEN c.ev["ts"] = c.arg.obj["ts"]
                      ELSE /\ c.ev["ts"].t = "num"
                           /\ i = Len(calls) => c.ev["ts"] = Num(now)

\* end() was called with a mapping that carries ph and ts, and the event has
\* the mapping's values
C20_Witness ==
    \E i \in 1..Len(calls) :
        /\ TsRoot
        /\ calls[i].method = "end"
        /\ calls[i].arg.kind = "mapping"
        /\ calls[i].arg.obj["ph"] = Str("Z")
        /\ ~calls[i].threw
        /\ calls[i].ev["ph"] = Str("Z")
        /\ calls[i].ev["ts"] = Num(0)
        /\ calls[i].ev["pid"] = Num(Pid)

====
